---- MODULE Spec2Model ----
(***************************************************************************)
(* Model of webdocstopdf (src/src/webdocstopdf/main.py): a sequential      *)
(* command line tool that resolves a list of documentation links from a    *)
(* YAML file or from a live page, prints a cover, an index and every page  *)
(* to PDF through one browser session, and merges the buffers into one     *)
(* output file.                                                            *)
(*                                                                         *)
(* Strings that the code takes apart (URLs, YAML keys, glob patterns) are  *)
(* tuples of one-character strings, so that split("#"), urlparse().netloc  *)
(* and fnmatch are computed character by character.  Python's None is the  *)
(* tuple <<"None">>, which is no string of one-character tokens.           *)
(***************************************************************************)
EXTENDS Integers, Sequences, FiniteSets, TLC

VARIABLES
    pc,         \* position of the run inside main() and its callees
    args,       \* argparse namespace: [input, selector, title]
    file,       \* what is on disk at args.input (structured input file)
    site,       \* the document the web serves at args.input
    out_file,   \* what is on disk at the output path
    driver,     \* browser session: "none", "open", "quit"
    doc,        \* document currently loaded in the browser
    trace,      \* commands received by the browser session, in order
    elements,   \* read_links_from_web: the local `links` (matched elements)
    links,      \* get_doc_page_urls: the local `links`
    page_urls,  \* main: page_urls (result of remove_duplicates)
    title,      \* get_cover_pdf: the local `title`
    pdf_pages,  \* main: pdf_pages
    pages,      \* get_pages_as_pdf: the local `pages`
    merger,     \* merge_pdfs_to: buffers appended to the PdfMerger
    cover_pdf,  \* main: the buffer get_cover_pdf returned
    i,          \* index of the running for loop
    err         \* the exception that ended the run, or NoErr

vars == <<pc, args, file, site, out_file, driver, doc, trace, elements, links,
          page_urls, title, cover_pdf, pdf_pages, pages, merger, i, err>>

----------------------------------------------------------------------------
(* Python values                                                           *)

None == <<"None">>

EmptyStr == <<>>

NoErr == "NoErr"

Letters == {"h", "x", "y", "p", "q", "m", "a", "g", "u"}

Digits == {"1", "2", "8"}

\* urllib.parse.scheme_chars, restricted to the characters in use
scheme_chars == Letters \cup Digits \cup {"+", "-", "."}

\* str.find(c, start) with 1-based positions; 0 stands for Python's -1
RECURSIVE find(_, _, _)
find(s, c, start) ==
    IF start > Len(s) THEN 0
    ELSE IF s[start] = c THEN start
    ELSE find(s, c, start + 1)

\* the url kept whole: the fragment is not cut off
split_hash_none(url) == url

\* url.rsplit("#", 1)[0]: only the last fragment is cut off
split_hash_last(url) ==
    LET ks == {k \in 1..Len(url) : url[k] = "#"}
    IN  IF ks = {} THEN url
        ELSE SubSeq(url, 1, (CHOOSE k \in ks : \A j \in ks : j <= k) - 1)

\* url.split("#")[0]: the part before the first '#'
split_hash_first(url) ==
    LET k == find(url, "#", 1)
    IN  IF k = 0 THEN url ELSE SubSeq(url, 1, k - 1)

----------------------------------------------------------------------------
(* remove_duplicates                                                       *)

\* the for loop of remove_duplicates, carrying its locals urls and urls_set
RECURSIVE remove_duplicates_loop(_, _, _)
remove_duplicates_loop(rest, urls, urls_set) ==
    IF rest = <<>> THEN urls
    ELSE LET name == Head(rest)[1]
             url  == split_hash_first(Head(rest)[2])
         IN  IF url \in urls_set
             THEN remove_duplicates_loop(Tail(rest), urls, urls_set)
             ELSE remove_duplicates_loop(Tail(rest), Append(urls, <<name, url>>),
                                         urls_set \cup {url})

remove_duplicates(ls) == remove_duplicates_loop(ls, <<>>, {})

----------------------------------------------------------------------------
(* urllib.parse.urlparse(url).netloc                                       *)

\* urlsplit's scheme test: a ':' after a non-empty run of scheme_chars
\* that starts with a letter
has_scheme(url) ==
    LET k == find(url, ":", 1)
    IN  /\ k > 1
        /\ url[1] \in Letters
        /\ \A j \in 1..(k - 1) : url[j] \in scheme_chars

\* the url with "scheme:" cut off, as urlsplit continues with it
after_scheme(url) ==
    IF has_scheme(url) THEN SubSeq(url, find(url, ":", 1) + 1, Len(url)) ELSE url

\* _splitnetloc(url, 2): from position 3 up to the first of '/', '?', '#'
splitnetloc(url) ==
    LET ds    == {find(url, c, 3) : c \in {"/", "?", "#"}} \ {0}
        delim == IF ds = {} THEN Len(url) + 1
                 ELSE CHOOSE d \in ds : \A e \in ds : d <= e
    IN  SubSeq(url, 3, delim - 1)

netloc(url) ==
    LET rest == after_scheme(url)
    IN  IF Len(rest) >= 2 /\ rest[1] = "/" /\ rest[2] = "/"
        THEN splitnetloc(rest)
        ELSE EmptyStr

----------------------------------------------------------------------------
(* fnmatch.fnmatch(name, pat) for patterns of literals, '?' and '*'        *)

RECURSIVE fnmatch(_, _)
fnmatch(name, pat) ==
    IF pat = <<>> THEN name = <<>>
    ELSE IF Head(pat) = "*"
         THEN \/ fnmatch(name, Tail(pat))
              \/ (name # <<>> /\ fnmatch(Tail(name), pat))
    ELSE IF Head(pat) = "?"
         THEN name # <<>> /\ fnmatch(Tail(name), Tail(pat))
    ELSE name # <<>> /\ Head(name) = Head(pat) /\ fnmatch(Tail(name), Tail(pat))

----------------------------------------------------------------------------
(* read_links_from_file                                                    *)

\* exceptions, by the statement that raises them
ValueErrorNotExist == [exc |-> "ValueError", at |-> "file does not exist"]

ValueErrorLoading == [exc |-> "ValueError", at |-> "Error loading YAML file"]

WebDriverException(step) == [exc |-> "WebDriverException", at |-> step]

OSError(step) == [exc |-> "OSError", at |-> step]

PdfReadError == [exc |-> "PdfReadError", at |-> "merger.append"]

\* list_to_pair: [("", item) for item in data]
list_to_pair(data) == [k \in 1..Len(data) |-> <<EmptyStr, data[k]>>]

\* [item for sublist in ... for item in sublist] over (key, sublist) pairs
RECURSIVE flatten_values(_)
flatten_values(items) ==
    IF items = <<>> THEN <<>>
    ELSE Head(items)[2] \o flatten_values(Tail(items))

\* [key for key in data.keys() if fnmatch.fnmatch(key, selector)], with values
RECURSIVE matching_items(_, _)
matching_items(items, selector) ==
    IF items = <<>> THEN <<>>
    ELSE (IF fnmatch(Head(items)[1], selector) THEN <<Head(items)>> ELSE <<>>)
         \o matching_items(Tail(items), selector)

\* the ladder with the selector branch taking every key
links_from_data_all_keys(data, selector) ==
    IF data.type = "list"
    THEN [ok |-> TRUE, links |-> list_to_pair(data.items), err |-> NoErr]
    ELSE IF data.type = "dict" /\ selector # EmptyStr
    THEN [ok |-> TRUE, links |-> list_to_pair(flatten_values(data.items)),
          err |-> NoErr]
    ELSE [ok |-> FALSE, links |-> <<>>, err |-> ValueErrorLoading]

\* the ladder with "elif selector is not None": the empty selector is
\* matched against the keys like any other pattern
links_from_data_not_none(data, selector) ==
    IF data.type = "list"
    THEN [ok |-> TRUE, links |-> list_to_pair(data.items), err |-> NoErr]
    ELSE IF data.type = "dict" /\ selector = None
    THEN [ok |-> TRUE, links |-> list_to_pair(flatten_values(data.items)),
          err |-> NoErr]
    ELSE IF data.type = "dict"
    THEN [ok |-> TRUE,
          links |-> list_to_pair(flatten_values(matching_items(data.items, selector))),
          err |-> NoErr]
    ELSE [ok |-> FALSE, links |-> <<>>, err |-> ValueErrorLoading]

\* the isinstance ladder on the value yaml.safe_load returned; a record
\* [ok, links, err]
links_from_data(data, selector) ==
    IF data.type = "list"
    THEN [ok |-> TRUE, links |-> list_to_pair(data.items), err |-> NoErr]
    ELSE IF data.type = "dict" /\ selector = None
    THEN [ok |-> TRUE, links |-> list_to_pair(flatten_values(data.items)),
          err |-> NoErr]
    ELSE IF data.type = "dict" /\ selector # EmptyStr
    THEN [ok |-> TRUE,
          links |-> list_to_pair(flatten_values(matching_items(data.items, selector))),
          err |-> NoErr]
    ELSE [ok |-> FALSE, links |-> <<>>, err |-> ValueErrorLoading]

\* the reader that takes a value that is no list and no mapping, or a path
\* that is no file, for an empty list of links
read_links_from_file_lenient(f, selector) ==
    IF ~f.exists \/ f.data.type \in {"scalar", "none"}
    THEN [ok |-> TRUE, links |-> <<>>, err |-> NoErr]
    ELSE IF f.data.type = "unparseable"
    THEN [ok |-> FALSE, links |-> <<>>, err |-> ValueErrorLoading]
    ELSE links_from_data(f.data, selector)

\* f is the state of the path on disk: [exists, data]; data.type is
\* "unparseable" when yaml.safe_load raises
read_links_from_file(f, selector) ==
    IF ~f.exists
    THEN [ok |-> FALSE, links |-> <<>>, err |-> ValueErrorNotExist]
    ELSE IF f.data.type = "unparseable"
    THEN [ok |-> FALSE, links |-> <<>>, err |-> ValueErrorLoading]
    ELSE links_from_data(f.data, selector)

----------------------------------------------------------------------------
(* read_links_from_web: extraction loop                                    *)

NumSelectors == 3

\* the test without the comparison of hosts
keep_link_any_host(text, href, base_domain) ==
    /\ href # None
    /\ href # EmptyStr
    /\ text # EmptyStr

\* the loop over the matched elements: text = get_attribute("text") or "",
\* href = get_attribute("href"), kept when href is truthy, text is not empty
\* and the href's netloc is the input's
keep_link(text, href, base_domain) ==
    /\ href # None
    /\ href # EmptyStr
    /\ text # EmptyStr
    /\ netloc(href) = base_domain

RECURSIVE extract_links(_, _)
extract_links(els, base_domain) ==
    IF els = <<>> THEN <<>>
    ELSE LET text == IF Head(els).text = None \/ Head(els).text = EmptyStr
                     THEN EmptyStr ELSE Head(els).text
             href == Head(els).href
         IN  (IF keep_link(text, href, base_domain)
              THEN <<(<<text, href>>)>> ELSE <<>>)
             \o extract_links(Tail(els), base_domain)

\* the fixed selector list of read_links_from_web, in priority order
selectors == << <<".sidebar-primary-item nav a">>,
                <<".side-nav-section a">>,
                <<"nav a">> >>

\* does the CSS selector number k select an anchor placed at `place`: an
\* anchor inside the sidebar's nav is also an anchor inside a nav
css_matches(k, place) ==
    \/ k = 1 /\ place = "sidebar nav"
    \/ k = 2 /\ place = "side-nav-section"
    \/ k = 3 /\ place \in {"sidebar nav", "nav"}

\* driver.find_elements("css selector", selectors[k]) on a page: the matching
\* anchors in document order
RECURSIVE find_elements(_, _)
find_elements(anchors, k) ==
    IF anchors = <<>> THEN <<>>
    ELSE (IF css_matches(k, Head(anchors).place) THEN <<Head(anchors)>> ELSE <<>>)
         \o find_elements(Tail(anchors), k)

----------------------------------------------------------------------------
(* get_cover_pdf: title resolution                                         *)

NumMetaSelectors == 2

meta_selectors == << <<"meta[property=og:site_name]">>,
                     <<"meta[property=og:title">> >>

DefaultTitle == <<"Documentation">>

\* outcome of find_element + get_attribute("content") that raised
Raise == <<"raise">>

\* the for loop over the meta selectors; metas[k] is what the query number k
\* yields on the loaded document.  Returns [title, queried]
RECURSIVE guess_title(_, _, _)
guess_title(t, k, metas) ==
    IF k > NumMetaSelectors THEN [title |-> t, queried |-> k - 1]
    ELSE IF metas[k] = Raise THEN guess_title(t, k + 1, metas)
    ELSE IF metas[k] # EmptyStr THEN [title |-> metas[k], queried |-> k]
    ELSE guess_title(metas[k], k + 1, metas)

\* get_cover_pdf up to the call of generate_cover_page
resolve_title(t, metas) ==
    LET g == IF t = EmptyStr THEN guess_title(t, 1, metas)
             ELSE [title |-> t, queried |-> 0]
    IN  [title   |-> IF g.title = EmptyStr THEN DefaultTitle ELSE g.title,
         queried |-> g.queried]

\* f"{title}": the text an f-string puts for a value
py_str(v) == IF v = None THEN <<"N", "o", "n", "e">> ELSE v

----------------------------------------------------------------------------
(* Browser documents and PDF buffers                                       *)

BlankDoc ==
    [kind |-> "blank", url |-> <<>>, title |-> <<>>, items |-> <<>>,
     expanded |-> FALSE, css |-> FALSE]

\* the document after driver.get(url)
UrlDoc(url) == [BlankDoc EXCEPT !.kind = "url", !.url = url]

\* generate_cover_page(title), loaded through a data URL
CoverDoc(t) == [BlankDoc EXCEPT !.kind = "cover", !.title = py_str(t)]

\* generate_index_page(urls), loaded through a data URL
IndexDoc(urls) == [BlankDoc EXCEPT !.kind = "index", !.items = urls]

\* print_pdf_page: the buffer is the print of the loaded document
print_pdf_page(d) == [pdf_of |-> d]

\* what the meta query number k yields on the loaded document
meta_outcomes(d, inp, st) ==
    IF d.kind = "url" /\ d.url = inp THEN st.metas
    ELSE [k \in 1..NumMetaSelectors |-> Raise]

\* input_path.lower().endswith((".yaml", ".yml"))
lower(c) ==
    IF c = "Y" THEN "y" ELSE IF c = "M" THEN "m" ELSE IF c = "L" THEN "l"
    ELSE IF c = "A" THEN "a" ELSE c

endswith(s, suffix) ==
    /\ Len(s) >= Len(suffix)
    /\ SubSeq(s, Len(s) - Len(suffix) + 1, Len(s)) = suffix

from_file(input_path) ==
    LET low == [k \in 1..Len(input_path) |-> lower(input_path[k])]
    IN  \/ endswith(low, <<".", "y", "a", "m", "l">>)
        \/ endswith(low, <<".", "y", "m", "l">>)

Absent == [exists |-> FALSE, content |-> <<>>, complete |-> FALSE]

----------------------------------------------------------------------------
(* Steps of main() and its callees                                         *)

inputs == <<args, file, site>>

locals == <<elements, links, page_urls, title, cover_pdf, pdf_pages, pages,
            merger, i>>

\* an uncaught exception leaves main(): nothing after the raising statement
\* runs
Abort(e) ==
    /\ pc' = "aborted"
    /\ err' = e

Sent(cmd, arg) == Append(trace, [cmd |-> cmd, arg |-> arg])

\* setup_driver that hands out a handle without starting the browser
SetupDriverLazy ==
    /\ pc = "setup_driver"
    /\ \/ /\ driver' = driver
          /\ pc' = "get_doc_page_urls"
          /\ err' = err
       \/ /\ Abort(WebDriverException("setup_driver"))
          /\ driver' = driver
    /\ UNCHANGED <<inputs, locals, out_file, doc, trace>>

\* driver = setup_driver(args.browser)
SetupDriver ==
    /\ pc = "setup_driver"
    /\ \/ /\ driver' = "open"
          /\ pc' = "get_doc_page_urls"
          /\ err' = err
       \/ /\ Abort(WebDriverException("setup_driver"))
          /\ driver' = driver
    /\ UNCHANGED <<inputs, locals, out_file, doc, trace>>

\* get_doc_page_urls: the choice of the reader
GetDocPageUrls ==
    /\ pc = "get_doc_page_urls"
    /\ pc' = IF from_file(args.input) THEN "read_links_from_file"
             ELSE "read_links_from_web"
    /\ UNCHANGED <<inputs, locals, out_file, driver, doc, trace, err>>

ReadLinksFromFile ==
    /\ pc = "read_links_from_file"
    /\ LET r == read_links_from_file(file, args.selector)
       IN  IF r.ok
           THEN /\ links' = r.links
                /\ pc' = "remove_duplicates"
                /\ err' = err
           ELSE /\ Abort(r.err)
                /\ links' = links
    /\ UNCHANGED <<inputs, out_file, driver, doc, trace, elements, page_urls,
                   title, cover_pdf, pdf_pages, pages, merger, i>>

\* read_links_from_web: driver.get(input_path)
WebGet ==
    /\ pc = "read_links_from_web"
    /\ trace' = Sent("get", args.input)
    /\ \/ /\ doc' = UrlDoc(args.input)
          /\ pc' = "web_expand"
          /\ err' = err
       \/ /\ Abort(WebDriverException("driver.get"))
          /\ doc' = doc
    /\ UNCHANGED <<inputs, locals, out_file, driver>>

\* read_links_from_web: expand_collapsible(driver), then the selector loop
\* starts with links = []
WebExpand ==
    /\ pc = "web_expand"
    /\ trace' = Sent("execute_script", <<"expand_collapsible">>)
    /\ \/ /\ doc' = [doc EXCEPT !.expanded = TRUE]
          /\ elements' = <<>>
          /\ i' = 1
          /\ pc' = "web_probe"
          /\ err' = err
       \/ /\ Abort(WebDriverException("execute_script"))
          /\ UNCHANGED <<doc, elements, i>>
    /\ UNCHANGED <<inputs, out_file, driver, links, page_urls, title,
                   cover_pdf, pdf_pages, pages, merger>>

\* the selector loop without its break: a later selector that matches
\* replaces the elements of an earlier one
WebProbeNoBreak ==
    /\ pc = "web_probe"
    /\ trace' = Sent("find_elements", selectors[i])
    /\ \/ LET links_detected == find_elements(site.anchors, i)
          IN  /\ err' = err
              /\ elements' = IF links_detected # <<>> THEN links_detected
                             ELSE elements
              /\ pc' = IF i < NumSelectors THEN "web_probe" ELSE "web_extract"
              /\ i' = IF i < NumSelectors THEN i + 1 ELSE i
       \/ /\ Abort(WebDriverException("find_elements"))
          /\ UNCHANGED <<elements, i>>
    /\ UNCHANGED <<inputs, out_file, driver, doc, links, page_urls, title,
                   cover_pdf, pdf_pages, pages, merger>>

\* read_links_from_web: one round of the selector loop
WebProbe ==
    /\ pc = "web_probe"
    /\ trace' = Sent("find_elements", selectors[i])
    /\ \/ LET links_detected == find_elements(site.anchors, i)
          IN  /\ err' = err
              /\ IF links_detected # <<>>
                 THEN /\ elements' = links_detected
                      /\ pc' = "web_extract"
                      /\ i' = i
                 ELSE /\ elements' = elements
                      /\ pc' = IF i < NumSelectors THEN "web_probe"
                               ELSE "web_extract"
                      /\ i' = IF i < NumSelectors THEN i + 1 ELSE i
       \/ /\ Abort(WebDriverException("find_elements"))
          /\ UNCHANGED <<elements, i>>
    /\ UNCHANGED <<inputs, out_file, driver, doc, links, page_urls, title,
                   cover_pdf, pdf_pages, pages, merger>>

\* read_links_from_web: the loop over the matched elements
WebExtract ==
    /\ pc = "web_extract"
    /\ \/ /\ links' = extract_links(elements, netloc(args.input))
          /\ pc' = "remove_duplicates"
          /\ err' = err
       \/ /\ elements # <<>>
          /\ Abort(WebDriverException("get_attribute"))
          /\ links' = links
    /\ UNCHANGED <<inputs, out_file, driver, doc, trace, elements, page_urls,
                   title, cover_pdf, pdf_pages, pages, merger, i>>

\* get_doc_page_urls: deduplicated_links = remove_duplicates(links)
RemoveDuplicates ==
    /\ pc = "remove_duplicates"
    /\ page_urls' = remove_duplicates(links)
    /\ pc' = "cover_title"
    /\ UNCHANGED <<inputs, out_file, driver, doc, trace, elements, links,
                   title, cover_pdf, pdf_pages, pages, merger, i, err>>

\* remove_duplicates run on the list it returned
RemoveDuplicatesAgain ==
    /\ pc = "cover_title"
    /\ links' = page_urls
    /\ page_urls' = remove_duplicates(page_urls)
    /\ pc' = "remove_duplicates_again_done"
    /\ UNCHANGED <<inputs, out_file, driver, doc, trace, elements,
                   title, cover_pdf, pdf_pages, pages, merger, i, err>>

\* find_element queries number 1..n of get_cover_pdf
RECURSIVE meta_queries(_, _)
meta_queries(tr, n) ==
    IF n = 0 THEN tr
    ELSE Append(meta_queries(tr, n - 1),
                [cmd |-> "find_element", arg |-> meta_selectors[n]])

\* get_cover_pdf: title resolution
CoverTitle ==
    /\ pc = "cover_title"
    /\ LET r == resolve_title(args.title, meta_outcomes(doc, args.input, site))
       IN  /\ title' = r.title
           /\ trace' = meta_queries(trace, r.queried)
    /\ pc' = "cover_get"
    /\ UNCHANGED <<inputs, out_file, driver, doc, elements, links, page_urls,
                   cover_pdf, pdf_pages, pages, merger, i, err>>

\* get_cover_pdf: print_html_to_pdf loads the cover through a data URL
CoverGet ==
    /\ pc = "cover_get"
    /\ trace' = Sent("get", <<"data:text/html", "cover">>)
    /\ \/ /\ doc' = CoverDoc(title)
          /\ pc' = "cover_print"
          /\ err' = err
       \/ /\ Abort(WebDriverException("driver.get"))
          /\ doc' = doc
    /\ UNCHANGED <<inputs, locals, out_file, driver>>

CoverPrint ==
    /\ pc = "cover_print"
    /\ trace' = Sent("print_page", <<>>)
    /\ \/ /\ cover_pdf' = print_pdf_page(doc)
          /\ pc' = "index_get"
          /\ err' = err
       \/ /\ Abort(WebDriverException("print_page"))
          /\ cover_pdf' = cover_pdf
    /\ UNCHANGED <<inputs, out_file, driver, doc, elements, links, page_urls,
                   title, pdf_pages, pages, merger, i>>

\* get_index_pdf: print_html_to_pdf loads the index through a data URL
IndexGet ==
    /\ pc = "index_get"
    /\ trace' = Sent("get", <<"data:text/html", "index">>)
    /\ \/ /\ doc' = IndexDoc(page_urls)
          /\ pc' = "index_print"
          /\ err' = err
       \/ /\ Abort(WebDriverException("driver.get"))
          /\ doc' = doc
    /\ UNCHANGED <<inputs, locals, out_file, driver>>

\* get_index_pdf returns; main builds pdf_pages = [cover, index] and enters
\* get_pages_as_pdf with pages = []
IndexPrint ==
    /\ pc = "index_print"
    /\ trace' = Sent("print_page", <<>>)
    /\ \/ /\ pdf_pages' = <<cover_pdf, print_pdf_page(doc)>>
          /\ pages' = <<>>
          /\ i' = 1
          /\ pc' = "page_get"
          /\ err' = err
       \/ /\ Abort(WebDriverException("print_page"))
          /\ UNCHANGED <<pdf_pages, pages, i>>
    /\ UNCHANGED <<inputs, out_file, driver, doc, elements, links, page_urls,
                   title, cover_pdf, merger>>

\* the loop body without expand_collapsible: the CSS follows the navigation
PageGetSkipExpand ==
    /\ pc = "page_get"
    /\ i <= Len(page_urls)
    /\ trace' = Sent("get", page_urls[i][2])
    /\ \/ /\ doc' = UrlDoc(page_urls[i][2])
          /\ pc' = "page_css"
          /\ err' = err
       \/ /\ Abort(WebDriverException("driver.get"))
          /\ doc' = doc
    /\ UNCHANGED <<inputs, locals, out_file, driver>>

\* get_pages_as_pdf: driver.get(url) for the next entry of page_urls
PageGet ==
    /\ pc = "page_get"
    /\ i <= Len(page_urls)
    /\ trace' = Sent("get", page_urls[i][2])
    /\ \/ /\ doc' = UrlDoc(page_urls[i][2])
          /\ pc' = "page_expand"
          /\ err' = err
       \/ /\ Abort(WebDriverException("driver.get"))
          /\ doc' = doc
    /\ UNCHANGED <<inputs, locals, out_file, driver>>

\* get_pages_as_pdf: expand_collapsible(driver)
PageExpand ==
    /\ pc = "page_expand"
    /\ trace' = Sent("execute_script", <<"expand_collapsible">>)
    /\ \/ /\ doc' = [doc EXCEPT !.expanded = TRUE]
          /\ pc' = "page_css"
          /\ err' = err
       \/ /\ Abort(WebDriverException("execute_script"))
          /\ doc' = doc
    /\ UNCHANGED <<inputs, locals, out_file, driver>>

\* get_pages_as_pdf: apply_custom_css(driver)
PageCss ==
    /\ pc = "page_css"
    /\ trace' = Sent("execute_script", <<"apply_custom_css">>)
    /\ \/ /\ doc' = [doc EXCEPT !.css = TRUE]
          /\ pc' = "page_print"
          /\ err' = err
       \/ /\ Abort(WebDriverException("execute_script"))
          /\ doc' = doc
    /\ UNCHANGED <<inputs, locals, out_file, driver>>

\* get_pages_as_pdf: page_pdf = print_pdf_page(...); pages.append(page_pdf)
PagePrint ==
    /\ pc = "page_print"
    /\ trace' = Sent("print_page", <<>>)
    /\ \/ /\ pages' = Append(pages, print_pdf_page(doc))
          /\ i' = i + 1
          /\ pc' = "page_get"
          /\ err' = err
       \/ /\ Abort(WebDriverException("print_page"))
          /\ UNCHANGED <<pages, i>>
    /\ UNCHANGED <<inputs, out_file, driver, doc, elements, links, page_urls,
                   title, cover_pdf, pdf_pages, merger>>

\* get_pages_as_pdf that returns the first two pages only
PagesReturnCapped ==
    /\ pc = "page_get"
    /\ i > Len(page_urls)
    /\ pdf_pages' = pdf_pages \o SubSeq(pages, 1, IF Len(pages) < 2 THEN Len(pages) ELSE 2)
    /\ pc' = "quit"
    /\ UNCHANGED <<inputs, out_file, driver, doc, trace, elements, links,
                   page_urls, title, cover_pdf, pages, merger, i, err>>

\* get_pages_as_pdf returns; main: pdf_pages.extend(...)
PagesReturn ==
    /\ pc = "page_get"
    /\ i > Len(page_urls)
    /\ pdf_pages' = pdf_pages \o pages
    /\ pc' = "quit"
    /\ UNCHANGED <<inputs, out_file, driver, doc, trace, elements, links,
                   page_urls, title, cover_pdf, pages, merger, i, err>>

\* main: driver.quit(); merge_pdfs_to starts with an empty PdfMerger
Quit ==
    /\ pc = "quit"
    /\ driver' = "quit"
    /\ trace' = Sent("quit", <<>>)
    /\ merger' = <<>>
    /\ i' = 1
    /\ pc' = "merge_append"
    /\ UNCHANGED <<inputs, out_file, doc, elements, links, page_urls, title,
                   cover_pdf, pdf_pages, pages, err>>

\* merge_pdfs_to: merger.append(BytesIO(pdf_data)) for the next buffer
MergeAppend ==
    /\ pc = "merge_append"
    /\ i <= Len(pdf_pages)
    /\ \/ /\ merger' = Append(merger, pdf_pages[i])
          /\ i' = i + 1
          /\ pc' = pc
          /\ err' = err
       \/ /\ Abort(PdfReadError)
          /\ UNCHANGED <<merger, i>>
    /\ UNCHANGED <<inputs, out_file, driver, doc, trace, elements, links,
                   page_urls, title, cover_pdf, pdf_pages, pages>>

\* merge_pdfs_to: if os.path.exists(output_path): os.remove(output_path)
MergeRemove ==
    /\ pc = "merge_append"
    /\ i > Len(pdf_pages)
    /\ \/ /\ out_file' = Absent
          /\ pc' = "merge_open"
          /\ err' = err
       \/ /\ out_file.exists
          /\ Abort(OSError("os.remove"))
          /\ out_file' = out_file
    /\ UNCHANGED <<inputs, locals, driver, doc, trace>>

\* merge_pdfs_to: open(output_path, "wb") creates the file empty
MergeOpen ==
    /\ pc = "merge_open"
    /\ \/ /\ out_file' = [exists |-> TRUE, content |-> <<>>, complete |-> FALSE]
          /\ pc' = "merge_write"
          /\ err' = err
       \/ /\ Abort(OSError("open"))
          /\ out_file' = out_file
    /\ UNCHANGED <<inputs, locals, driver, doc, trace>>

\* merge_pdfs_to: merger.write(out_file); a failing write leaves what it
\* wrote so far
MergeWrite ==
    /\ pc = "merge_write"
    /\ \/ /\ out_file' = [exists |-> TRUE, content |-> merger, complete |-> TRUE]
          /\ pc' = "merge_close"
          /\ err' = err
       \/ /\ \E n \in 0..(Len(merger) - 1) :
                out_file' = [exists |-> TRUE, content |-> SubSeq(merger, 1, n),
                             complete |-> FALSE]
          /\ Abort(OSError("write"))
    /\ UNCHANGED <<inputs, locals, driver, doc, trace>>

\* merge_pdfs_to: merger.close(); main prints DONE
MergeClose ==
    /\ pc = "merge_close"
    /\ pc' = "done"
    /\ UNCHANGED <<inputs, locals, out_file, driver, doc, trace, err>>

----------------------------------------------------------------------------
(* Inputs                                                                  *)

MaxLinks == 3

MaxItems == 2

MaxKeys == 2

MaxAnchors == 2

SeqUpTo(S, n) == UNION {[1..m -> S] : m \in 0..n}

\* h://x/p and relatives: same page with fragments, another page, another
\* host, a port, a scheme without netloc
Uxp == <<"h", ":", "/", "/", "x", "/", "p">>

Uxp1 == Uxp \o <<"#", "1">>

Uxp12 == Uxp \o <<"#", "1", "#", "2">>

Uxq == <<"h", ":", "/", "/", "x", "/", "q">>

Uxq2 == Uxq \o <<"#", "2">>

Uyp == <<"h", ":", "/", "/", "y", "/", "p">>

Ux8p == <<"h", ":", "/", "/", "x", ":", "8", "/", "p">>

Uma == <<"m", ":", "a">>

WebInput == <<"h", ":", "/", "/", "x", "/">>

FileInput == <<"l", ".", "y", "a", "m", "l">>

FileInputUpper == <<"l", ".", "Y", "M", "L">>

Labels == {EmptyStr, <<"A">>, <<"B">>}

DedupUrls == {Uxp, Uxp1, Uxp12, Uxq}

FileUrls == {Uxp, Uxq2}

Keys == {<<"g", "u">>, <<"g">>, <<"a">>}

Selectors == {None, EmptyStr, <<"g", "*">>, <<"*">>, <<"?">>, <<"a">>,
              <<"g", "?">>, <<"*", "u">>}

Titles == {DefaultTitle, EmptyStr, <<"T">>}

MetaOutcomes == {Raise, None, EmptyStr, <<"S">>, <<"T">>}

Texts == {None, EmptyStr, <<"A">>}

Hrefs == {None, EmptyStr, Uxp, Uyp, Ux8p, Uma}

Places == {"sidebar nav", "side-nav-section", "nav", "body"}

Anchor(t, h, pl) == [text |-> t, href |-> h, place |-> pl]

YamlList(items) == [type |-> "list", items |-> items]

YamlDict(items) == [type |-> "dict", items |-> items]

YamlOther(t) == [type |-> t, items |-> <<>>]

OnDisk(data) == [exists |-> TRUE, data |-> data]

Missing == [exists |-> FALSE, data |-> YamlOther("none")]

\* mappings: distinct keys in document order, each with a list of URLs
Dicts ==
    {d \in SeqUpTo(Keys \X SeqUpTo(FileUrls, MaxItems), MaxKeys) :
        \A a, b \in 1..Len(d) : a # b => d[a][1] # d[b][1]}

Files ==
    {Missing}
    \cup {OnDisk(YamlOther(t)) : t \in {"unparseable", "scalar", "none"}}
    \cup {OnDisk(YamlList(l)) : l \in SeqUpTo(FileUrls, MaxItems)}
    \cup {OnDisk(YamlDict(d)) : d \in Dicts}

Sites ==
    {[anchors |-> a, metas |-> <<Raise, Raise>>] :
        a \in SeqUpTo({Anchor(t, h, pl) : t \in Texts, h \in Hrefs, pl \in Places},
                      MaxAnchors)}

OldFile ==
    [exists |-> TRUE, content |-> <<print_pdf_page(BlankDoc)>>, complete |-> TRUE]

NoSite == [anchors |-> <<>>, metas |-> <<Raise, Raise>>]

\* runs of main() on a structured file
MainFiles ==
    {Missing,
     OnDisk(YamlOther("unparseable")),
     OnDisk(YamlOther("scalar")),
     OnDisk(YamlList(<<>>)),
     OnDisk(YamlList(<<Uxp, Uxp1, Uxq>>)),
     OnDisk(YamlDict(<< <<(<<"g", "u">>), <<Uxp, Uxq2>> >>,
                        <<(<<"a">>), <<Uxq, Uyp>> >> >>))}

\* runs of main() on a live page
MainAnchors ==
    {<<>>,
     <<Anchor(<<"A">>, Uxp1, "nav"), Anchor(<<"B">>, Uyp, "nav"),
       Anchor(<<"B">>, Uxp, "nav")>>,
     <<Anchor(<<"A">>, Uxq, "nav"), Anchor(<<"B">>, Uxp, "side-nav-section"),
       Anchor(EmptyStr, Uxq2, "side-nav-section")>>}

MainSites ==
    {[anchors |-> a, metas |-> m] :
        a \in MainAnchors, m \in [1..NumMetaSelectors -> MetaOutcomes]}

Args(inp, sel, t) == [input |-> inp, selector |-> sel, title |-> t]

\* the state every run starts from, apart from its inputs and position
InitRest ==
    /\ doc = BlankDoc
    /\ trace = <<>>
    /\ elements = <<>>
    /\ page_urls = <<>>
    /\ title = EmptyStr
    /\ cover_pdf = print_pdf_page(BlankDoc)
    /\ pdf_pages = <<>>
    /\ pages = <<>>
    /\ merger = <<>>
    /\ i = 0
    /\ err = NoErr

\* main() after configure_cli
Init ==
    /\ pc = "setup_driver"
    /\ driver = "none"
    /\ out_file \in {Absent, OldFile}
    /\ \/ /\ args \in {Args(inp, sel, t) :
                         inp \in {FileInput, FileInputUpper},
                         sel \in {None, EmptyStr, <<"g", "*">>},
                         t \in Titles}
          /\ file \in MainFiles
          /\ site = NoSite
       \/ /\ args \in {Args(WebInput, None, t) : t \in Titles}
          /\ file = Missing
          /\ site \in MainSites
    /\ links = <<>>
    /\ InitRest

Next ==
    \/ SetupDriver
    \/ GetDocPageUrls
    \/ ReadLinksFromFile
    \/ WebGet
    \/ WebExpand
    \/ WebProbe
    \/ WebExtract
    \/ RemoveDuplicates
    \/ CoverTitle
    \/ CoverGet
    \/ CoverPrint
    \/ IndexGet
    \/ IndexPrint
    \/ PageGet
    \/ PageExpand
    \/ PageCss
    \/ PagePrint
    \/ PagesReturn
    \/ Quit
    \/ MergeAppend
    \/ MergeRemove
    \/ MergeOpen
    \/ MergeWrite
    \/ MergeClose

Spec == Init /\ [][Next]_vars

\* remove_duplicates on any bounded list of (label, url) pairs
InitDedup ==
    /\ pc = "remove_duplicates"
    /\ driver = "open"
    /\ out_file = Absent
    /\ args = Args(WebInput, None, DefaultTitle)
    /\ file = Missing
    /\ site = NoSite
    /\ links \in SeqUpTo(Labels \X DedupUrls, MaxLinks)
    /\ InitRest

NextDedup == RemoveDuplicates \/ RemoveDuplicatesAgain

SpecDedup == InitDedup /\ [][NextDedup]_vars

\* read_links_from_file on any bounded file and selector
InitFile ==
    /\ pc = "read_links_from_file"
    /\ driver = "open"
    /\ out_file = Absent
    /\ args \in {Args(FileInput, sel, DefaultTitle) : sel \in Selectors}
    /\ file \in Files
    /\ site = NoSite
    /\ links = <<>>
    /\ InitRest

NextFile == ReadLinksFromFile

SpecFile == InitFile /\ [][NextFile]_vars

\* read_links_from_web on any bounded page
InitWeb ==
    /\ pc = "read_links_from_web"
    /\ driver = "open"
    /\ out_file = Absent
    /\ args = Args(WebInput, None, DefaultTitle)
    /\ file = Missing
    /\ site \in Sites
    /\ links = <<>>
    /\ InitRest

NextWeb == WebGet \/ WebExpand \/ WebProbe \/ WebExtract

SpecWeb == InitWeb /\ [][NextWeb]_vars

----------------------------------------------------------------------------
(* Properties                                                              *)

\* the URL without its fragment: the longest prefix that holds no '#' and
\* ends at the end of the URL or right before a '#'
FragStripped(u) ==
    LET n == CHOOSE m \in 0..Len(u) :
                 /\ \A j \in 1..m : u[j] # "#"
                 /\ m = Len(u) \/ u[m + 1] = "#"
    IN  SubSeq(u, 1, n)

\* position in L of the first entry whose fragment-stripped URL is key
FirstIdx(L, key) ==
    CHOOSE k \in 1..Len(L) :
        /\ FragStripped(L[k][2]) = key
        /\ \A j \in 1..(k - 1) : FragStripped(L[j][2]) # key

DedupPost(L, R) ==
    /\ \A a, b \in 1..Len(R) : a # b => R[a][2] # R[b][2]
    /\ {R[a][2] : a \in 1..Len(R)} = {FragStripped(L[k][2]) : k \in 1..Len(L)}
    /\ \A a \in 1..Len(R) : R[a][1] = L[FirstIdx(L, R[a][2])][1]
    /\ \A a, b \in 1..Len(R) :
           a < b => FirstIdx(L, R[a][2]) < FirstIdx(L, R[b][2])
    /\ L = <<>> => R = <<>>

\* C2: the list remove_duplicates returns holds exactly one entry per
\* distinct fragment-stripped URL of its input, each with the label of the
\* first occurrence and the URL without fragment, in first-seen order; empty
\* input gives empty output.
C2_DedupExactlyOnePerUrl ==
    pc \in {"cover_title", "remove_duplicates_again_done"}
        => DedupPost(links, page_urls)

\* remove_duplicates returned after dropping a later duplicate that differed
\* in label and fragment from the entry kept
C2_Witness ==
    /\ pc = "cover_title"
    /\ Len(links) = 3
    /\ Len(page_urls) = 2
    /\ \E a, b \in 1..3 :
          /\ a < b
          /\ links[a][1] # links[b][1]
          /\ links[a][2] # links[b][2]
          /\ FragStripped(links[a][2]) = FragStripped(links[b][2])

\* C3: remove_duplicates run on its own output returns that output
\* unchanged.
C3_DedupIdempotent ==
    pc = "remove_duplicates_again_done" => page_urls = links

\* the second run was given a list of two entries
C3_Witness ==
    /\ pc = "remove_duplicates_again_done"
    /\ Len(links) = 2
    /\ page_urls = links

\* glob match, stated by the positions the pattern's tokens end at in the
\* name: '*' covers any stretch, '?' one character, a literal itself
GlobMatches(name, pat) ==
    \E pos \in [0..Len(pat) -> 0..Len(name)] :
        /\ pos[0] = 0
        /\ pos[Len(pat)] = Len(name)
        /\ \A j \in 1..Len(pat) :
              IF pat[j] = "*" THEN pos[j] >= pos[j - 1]
              ELSE /\ pos[j] = pos[j - 1] + 1
                   /\ pat[j] = "?" \/ name[pos[j]] = pat[j]

\* number of URLs listed under the first n keys
RECURSIVE Offset(_, _)
Offset(items, n) ==
    IF n = 0 THEN 0 ELSE Offset(items, n - 1) + Len(items[n][2])

\* R lists, with empty labels, the URLs of every key of items, key after
\* key in document order, each key's URLs in their order
ConcatOf(R, items) ==
    /\ Len(R) = Offset(items, Len(items))
    /\ \A a \in 1..Len(items) : \A b \in 1..Len(items[a][2]) :
           R[Offset(items, a - 1) + b] = <<EmptyStr, items[a][2][b]>>

\* read_links_from_file has returned or raised
FileRead ==
    /\ from_file(args.input)
    /\ \/ pc = "remove_duplicates"
       \/ pc = "aborted" /\ err.exc = "ValueError"

\* C6: on an existing file, a list gives one ('', element) pair per element
\* in list order; a mapping without selector gives the values of all keys
\* concatenated in key order; a mapping with a glob selector gives the
\* values of exactly the keys the glob matches, in key order.
C6_FileLinks ==
    (FileRead /\ file.exists) =>
        /\ file.data.type = "list" =>
              /\ pc = "remove_duplicates"
              /\ Len(links) = Len(file.data.items)
              /\ \A k \in 1..Len(links) : links[k] = <<EmptyStr, file.data.items[k]>>
        /\ (file.data.type = "dict" /\ args.selector = None) =>
              /\ pc = "remove_duplicates"
              /\ ConcatOf(links, file.data.items)
        /\ (file.data.type = "dict" /\ args.selector \notin {None, EmptyStr}) =>
              /\ pc = "remove_duplicates"
              /\ ConcatOf(links, SelectSeq(file.data.items,
                                 LAMBDA it : GlobMatches(it[1], args.selector)))

\* a mapping of two keys with URLs was read with a glob that matches the
\* second key only
C6_Witness ==
    /\ pc = "remove_duplicates"
    /\ file.exists
    /\ file.data.type = "dict"
    /\ Len(file.data.items) = 2
    /\ args.selector = <<"g", "*">>
    /\ file.data.items[1][1] = <<"a">>
    /\ file.data.items[1][2] # <<>>
    /\ file.data.items[2][1] = <<"g", "u">>
    /\ Len(file.data.items[2][2]) = 2
    /\ Len(links) = 2

\* C7: read_links_from_file raises, and returns no list, when the path is no
\* existing file, when the file does not parse, and when the parsed value is
\* neither a list nor a mapping.
C7_FileErrors ==
    FileRead =>
        /\ ~file.exists =>
              pc = "aborted" /\ err = ValueErrorNotExist /\ links = <<>>
        /\ (file.exists /\ file.data.type \in {"unparseable", "scalar", "none"}) =>
              pc = "aborted" /\ err = ValueErrorLoading /\ links = <<>>

\* the reader raised on a file that holds a scalar
C7_Witness ==
    /\ pc = "aborted"
    /\ file.exists
    /\ file.data.type = "scalar"
    /\ err = ValueErrorLoading

\* the anchors of the page that selector number k selects, in document order
Matched(k) == SelectSeq(site.anchors, LAMBDA a : css_matches(k, a.place))

\* the selectors that select at least one anchor of the page
Matching == {k \in 1..NumSelectors : Matched(k) # <<>>}

FirstMatching == CHOOSE k \in Matching : \A j \in Matching : k <= j

\* the find_elements commands the browser received, in order
Probes == SelectSeq(trace, LAMBDA c : c.cmd = "find_elements")

\* the selector loop of read_links_from_web is over
Probed == ~from_file(args.input) /\ pc \in {"web_extract", "remove_duplicates"}

\* read_links_from_web has returned
WebRead == ~from_file(args.input) /\ pc = "remove_duplicates"

\* C8: the selectors are probed in priority order up to the first one that
\* selects an element; the links are extracted from the elements of that
\* selector only; later selectors are never probed; when no selector
\* selects anything the result is empty.
C8_FirstMatchingSelector ==
    /\ Probed =>
          IF Matching = {}
          THEN /\ elements = <<>>
               /\ Probes = [j \in 1..NumSelectors |->
                               [cmd |-> "find_elements", arg |-> selectors[j]]]
          ELSE /\ elements = Matched(FirstMatching)
               /\ Probes = [j \in 1..FirstMatching |->
                               [cmd |-> "find_elements", arg |-> selectors[j]]]
    /\ WebRead =>
          IF Matching = {} THEN links = <<>>
          ELSE \A n \in 1..Len(links) :
                   \E m \in 1..Len(Matched(FirstMatching)) :
                       /\ Matched(FirstMatching)[m].text = links[n][1]
                       /\ Matched(FirstMatching)[m].href = links[n][2]

\* the first selector selected nothing, the second selected the second
\* anchor, and the first anchor, which only the third selector selects, gave
\* no link
C8_Witness ==
    /\ WebRead
    /\ Len(site.anchors) = 2
    /\ site.anchors[1] = Anchor(<<"A">>, Uma, "nav")
    /\ site.anchors[2] = Anchor(<<"A">>, Uxp, "side-nav-section")
    /\ FirstMatching = 2
    /\ links = <<(<<(<<"A">>), Uxp>>)>>

\* the authority of a URL: what stands between the "//" that follows the
\* scheme and the next '/', '?' or '#'; empty when there is no "//"
Host(u) ==
    LET colons == {k \in 1..Len(u) : u[k] = ":"}
        c == IF colons = {} THEN 0
             ELSE CHOOSE k \in colons : \A j \in colons : k <= j
        s == IF /\ c > 1
                /\ u[1] \in Letters
                /\ \A j \in 1..(c - 1) : u[j] \in scheme_chars
             THEN c ELSE 0
    IN  IF Len(u) >= s + 2 /\ u[s + 1] = "/" /\ u[s + 2] = "/"
        THEN LET n == CHOOSE m \in (s + 2)..Len(u) :
                          /\ \A j \in (s + 3)..m : u[j] \notin {"/", "?", "#"}
                          /\ m = Len(u) \/ u[m + 1] \in {"/", "?", "#"}
             IN  SubSeq(u, s + 3, n)
        ELSE EmptyStr

\* an element with a destination, a visible text and the input's host
OnSite(e) ==
    /\ e.href \notin {None, EmptyStr}
    /\ e.text \notin {None, EmptyStr}
    /\ Host(e.href) = Host(args.input)

Ended == pc \in {"done", "aborted"}

\* C1: in every run that acquired the browser session, the session has been
\* released (driver.quit() was called) when the run ends, whether it ends
\* with DONE or with an exception of link resolution or rendering.
C1_SessionReleasedOnEveryExit ==
    (Ended /\ driver # "none") => driver = "quit"

\* the print of the page at url, after expansion and CSS injection
PagePdf(url) ==
    print_pdf_page([UrlDoc(url) EXCEPT !.expanded = TRUE, !.css = TRUE])

SourceError ==
    /\ pc = "aborted"
    /\ err \in {ValueErrorNotExist, ValueErrorLoading}

\* C5 as stated: the source-file error of a missing or malformed structured
\* file occurs before the browser session is acquired, never after
\* setup_driver created it.
C5_SourceErrorBeforeSession ==
    SourceError => driver = "none"

\* C5 as amended: the source-file error occurs after setup_driver acquired
\* the browser session and before any command was sent to the browser.
C5_SourceErrorAfterSession ==
    SourceError =>
        /\ driver # "none"
        /\ trace = <<>>
        /\ doc = BlankDoc
        /\ page_urls = <<>>

\* the run ended on a missing structured file
C5_Witness ==
    /\ SourceError
    /\ ~file.exists
    /\ err = ValueErrorNotExist
    /\ driver = "open"

\* the metadata queries whose content attribute is a non-empty string
GoodMetas ==
    {k \in 1..NumMetaSelectors :
        meta_outcomes(doc, args.input, site)[k] \notin {Raise, None, EmptyStr}}

\* the find_element commands the browser received, in order
MetaQueries == SelectSeq(trace, LAMBDA c : c.cmd = "find_element")

\* C10: a non-empty title given by the caller is used as it is and no
\* metadata query is made; with an empty title the metadata selectors are
\* queried in priority order and the first non-empty content attribute is the
\* title; when no query yields a non-empty content the title is the default
\* "Documentation"; the title of the cover is always a non-empty string.
C10_TitleResolution ==
    pc = "cover_get" =>
        /\ title \notin {None, EmptyStr}
        /\ args.title # EmptyStr => (title = args.title /\ MetaQueries = <<>>)
        /\ args.title = EmptyStr =>
              IF GoodMetas = {} THEN title = DefaultTitle
              ELSE LET first == CHOOSE k \in GoodMetas : \A j \in GoodMetas : k <= j
                   IN  /\ title = meta_outcomes(doc, args.input, site)[first]
                       /\ MetaQueries = [j \in 1..first |->
                              [cmd |-> "find_element", arg |-> meta_selectors[j]]]

\* an exception left merge_pdfs_to: the merge runs after driver.quit(), and
\* nothing else does
MergeFailed == pc = "aborted" /\ driver = "quit"

\* C11: when merge_pdfs_to fails at any step (appending a buffer, removing
\* the file that was there, opening or writing the output) no half-written
\* file is left at the output path, and the output path is touched only after
\* every buffer has been appended to the merger in memory.
C11_NoHalfWrittenOutput ==
    /\ MergeFailed => (out_file.exists => out_file.complete)
    /\ pc = "merge_append" => out_file \in {Absent, OldFile}

\* position in the trace of the navigation to the index page, the last
\* command but one before get_pages_as_pdf is entered
IndexAt ==
    CHOOSE n \in 1..Len(trace) :
        trace[n] = [cmd |-> "get", arg |-> <<"data:text/html", "index">>]

\* the commands the browser received after the index was printed
PageCmds == SubSeq(trace, IndexAt + 2, Len(trace))

\* the four browser steps of one entry, numbered 0..3
StepCmd(s, url) ==
    IF s = 0 THEN [cmd |-> "get", arg |-> url]
    ELSE IF s = 1 THEN [cmd |-> "execute_script", arg |-> <<"expand_collapsible">>]
    ELSE IF s = 2 THEN [cmd |-> "execute_script", arg |-> <<"apply_custom_css">>]
    ELSE [cmd |-> "print_page", arg |-> <<>>]

\* get_pages_as_pdf is running or has just returned to main
InPageLoop == pc \in {"page_get", "page_expand", "page_css", "page_print", "quit"}

\* an exception left get_pages_as_pdf: pdf_pages holds cover and index and
\* the session is still open
AbortedInPageLoop == pc = "aborted" /\ driver = "open" /\ Len(pdf_pages) = 2

C13_EmptySelectorRaises ==
    (FileRead /\ file.exists /\ file.data.type = "dict"
              /\ args.selector = EmptyStr) =>
        /\ pc = "aborted"
        /\ err = ValueErrorLoading
        /\ links = <<>>

\* the reader raised on a mapping of two keys with URLs, read with the
\* empty selector
C13_Witness ==
    /\ pc = "aborted"
    /\ err = ValueErrorLoading
    /\ file.exists
    /\ file.data.type = "dict"
    /\ Len(file.data.items) = 2
    /\ file.data.items[1][2] # <<>>
    /\ args.selector = EmptyStr

====
